---- MODULE Spec2Model ----
(***************************************************************************)
(* The Perspective Engine (src/app.py): the response sanitizer             *)
(* clean_json_string, the model selector get_working_model, the            *)
(* orchestrator get_ai_response and the button handler of the main screen. *)
(*                                                                         *)
(* A Python str is a sequence of one-character strings.  In the text of a  *)
(* backend response an element may also be a whole JSON lexeme (a member,  *)
(* a brace): such an element holds no backtick, no newline, no carriage    *)
(* return and no blank, so the sanitizer treats it as an ordinary          *)
(* character.                                                              *)
(***************************************************************************)
EXTENDS Integers, Sequences, FiniteSets, TLC

VARIABLES
    \* sanitizer harness
    json_str, tag, once, twice, fenced, decPlain, decFenced, cpc,
    \* selector harness
    catalog, failAt, selected, spc,
    \* main screen
    pc, api_key, user_input, button, provider, data, model_name, errors,
    warnings, sidebar, rendered, escaped, calls

cleanVars == <<json_str, tag, once, twice, fenced, decPlain, decFenced, cpc>>
selVars == <<catalog, failAt, selected, spc>>
uiVars == <<pc, api_key, user_input, button, provider, data, model_name,
            errors, warnings, sidebar, rendered, escaped, calls>>
vars == <<cleanVars, selVars, uiVars>>

----------------------------------------------------------------------------
(* Bounds *)

\* number of fragments an enumerated sanitizer input is built from
MaxFragments == 3

\* number of entries of an enumerated catalog
MaxCatalog == 3

----------------------------------------------------------------------------
(* Strings *)

\* the backtick character
BT == "BACKTICK"
NL == "\n"
CR == "\r"
SP == " "
TAB == "\t"

\* s[i..] starts with pat
StartsAt(s, i, pat) ==
    /\ i + Len(pat) - 1 <= Len(s)
    /\ \A k \in 1..Len(pat) : s[i + k - 1] = pat[k]

\* Python's  pat in s
Contains(s, pat) ==
    \E i \in 1..(Len(s) - Len(pat) + 1) : StartsAt(s, i, pat)

LowerChar(c) ==
    CASE c = "F" -> "f"
      [] c = "L" -> "l"
      [] c = "A" -> "a"
      [] c = "S" -> "s"
      [] c = "H" -> "h"
      [] c = "G" -> "g"
      [] c = "P" -> "p"
      [] c = "R" -> "r"
      [] c = "O" -> "o"
      [] c = "J" -> "j"
      [] c = "N" -> "n"
      [] OTHER -> c

\* str.lower()
Lower(s) == [i \in 1..Len(s) |-> LowerChar(s[i])]

RECURSIVE Flatten(_)
Flatten(ss) ==
    IF ss = <<>> THEN <<>> ELSE Head(ss) \o Flatten(Tail(ss))

\* all sequences over S of length 0..n
SeqsUpTo(S, n) == UNION {[1..k -> S] : k \in 0..n}

----------------------------------------------------------------------------
(* clean_json_string *)

FenceJson == <<BT, BT, BT, "j", "s", "o", "n">>
Fence == <<BT, BT, BT>>

\* a mutant of SubFenceJson: the tagged fence is not looked for
SubFenceJsonNone(s) == s

\* re.sub with the pattern of three backticks, json and an optional newline:
\* leftmost non-overlapping matches
RECURSIVE SubFenceJsonFrom(_, _)
SubFenceJsonFrom(s, i) ==
    IF i > Len(s) THEN <<>>
    ELSE IF StartsAt(s, i, FenceJson)
         THEN IF i + 7 <= Len(s) /\ s[i + 7] = NL
              THEN SubFenceJsonFrom(s, i + 8)
              ELSE SubFenceJsonFrom(s, i + 7)
         ELSE <<s[i]>> \o SubFenceJsonFrom(s, i + 1)

SubFenceJson(s) == SubFenceJsonFrom(s, 1)

\* re.sub of the pattern: three backticks
RECURSIVE SubFenceFrom(_, _)
SubFenceFrom(s, i) ==
    IF i > Len(s) THEN <<>>
    ELSE IF StartsAt(s, i, Fence)
         THEN SubFenceFrom(s, i + 3)
         ELSE <<s[i]>> \o SubFenceFrom(s, i + 1)

SubFence(s) == SubFenceFrom(s, 1)

\* a mutant of ReplaceNewline: the newline is dropped instead of blanked
RECURSIVE ReplaceNewlineDrop(_)
ReplaceNewlineDrop(s) ==
    IF s = <<>> THEN <<>>
    ELSE (IF Head(s) = NL THEN <<>> ELSE <<Head(s)>>)
         \o ReplaceNewlineDrop(Tail(s))

\* a mutant of ReplaceNewline: the replacement is forgotten
ReplaceNewlineKeep(s) == s

\* .replace('\n', ' ')
ReplaceNewline(s) == [i \in 1..Len(s) |-> IF s[i] = NL THEN SP ELSE s[i]]

\* .replace('\r', '')
RECURSIVE DropCarriageReturn(_)
DropCarriageReturn(s) ==
    IF s = <<>> THEN <<>>
    ELSE (IF Head(s) = CR THEN <<>> ELSE <<Head(s)>>)
         \o DropCarriageReturn(Tail(s))

IsSpace(c) == c \in {SP, NL, CR, TAB}

RECURSIVE LStrip(_)
LStrip(s) ==
    IF s # <<>> /\ IsSpace(Head(s)) THEN LStrip(Tail(s)) ELSE s

RECURSIVE RStrip(_)
RStrip(s) ==
    IF s # <<>> /\ IsSpace(s[Len(s)])
    THEN RStrip(SubSeq(s, 1, Len(s) - 1))
    ELSE s

\* str.strip()
Strip(s) == RStrip(LStrip(s))

clean_json_string(s) ==
    Strip(DropCarriageReturn(ReplaceNewline(SubFence(SubFenceJson(s)))))

----------------------------------------------------------------------------
(* json.loads on the texts a backend returns *)

TopKeys == {"emotions", "perspectives", "one_line_takeaway"}
PerspectiveKeys == {"stoic", "strategist", "compassionate"}

\* a decoded value: a dict with its keys (and the keys of its perspectives
\* member), a list of n items, or the int n
DictValue(keys, pkeys) == [type |-> "dict", keys |-> keys, pkeys |-> pkeys, n |-> 0]
ListValue(n) == [type |-> "list", keys |-> {}, pkeys |-> {}, n |-> n]
IntValue(n) == [type |-> "int", keys |-> {}, pkeys |-> {}, n |-> n]

AnalysisResult == DictValue(TopKeys, PerspectiveKeys)

JsonValues ==
    {AnalysisResult}
    \cup {DictValue(TopKeys \ {k}, IF k = "perspectives" THEN {} ELSE PerspectiveKeys) :
            k \in TopKeys}
    \cup {DictValue(TopKeys, PerspectiveKeys \ {k}) : k \in PerspectiveKeys}
    \cup {DictValue({}, {}), ListValue(0), ListValue(1), IntValue(0), IntValue(7)}

\* seqs joined with sep between them
RECURSIVE Join(_, _)
Join(seqs, sep) ==
    IF seqs = <<>> THEN <<>>
    ELSE IF Len(seqs) = 1 THEN Head(seqs)
    ELSE Head(seqs) \o sep \o Join(Tail(seqs), sep)

\* the members of order that are in keys, in that order
RECURSIVE Members(_, _)
Members(order, keys) ==
    IF order = <<>> THEN <<>>
    ELSE (IF Head(order) \in keys THEN <<Head(order)>> ELSE <<>>)
         \o Members(Tail(order), keys)

\* the JSON text of a value, ws between any two lexemes; a member that is
\* not looked into is the one lexeme named by its key
PerspectiveText(pkeys, ws) ==
    <<"\"perspectives\":{">> \o ws
    \o Join([i \in 1..Len(Members(<<"stoic", "strategist", "compassionate">>, pkeys)) |->
               <<Members(<<"stoic", "strategist", "compassionate">>, pkeys)[i]>>],
            ws \o <<",">> \o ws)
    \o ws \o <<"}">>

MemberText(k, v, ws) ==
    IF k = "perspectives" THEN PerspectiveText(v.pkeys, ws) ELSE <<k>>

JsonText(v, ws) ==
    CASE v.type = "dict" ->
           <<"{">> \o ws
           \o Join([i \in 1..Len(Members(<<"emotions", "perspectives", "one_line_takeaway">>, v.keys)) |->
                      MemberText(Members(<<"emotions", "perspectives", "one_line_takeaway">>, v.keys)[i], v, ws)],
                   ws \o <<",">> \o ws)
           \o ws \o <<"}">>
      [] v.type = "list" ->
           <<"[">> \o ws \o Join([i \in 1..v.n |-> <<"1">>], ws \o <<",">> \o ws)
           \o ws \o <<"]">>
      [] OTHER -> IF v.n = 0 THEN <<"0">> ELSE <<"7">>

\* JSON whitespace between lexemes is skipped
RECURSIVE SkipWhitespace(_)
SkipWhitespace(s) ==
    IF s = <<>> THEN <<>>
    ELSE (IF IsSpace(Head(s)) THEN <<>> ELSE <<Head(s)>>)
         \o SkipWhitespace(Tail(s))

NoValue == IntValue(0)

\* the texts json.loads accepts, each with its value
JsonTable == {<<JsonText(v, <<>>), v>> : v \in JsonValues}

\* json.loads: the value of the text, or JSONDecodeError
json_loads(s) ==
    LET lexemes == SkipWhitespace(s) IN
    IF \E p \in JsonTable : p[1] = lexemes
    THEN [ok |-> TRUE, value |-> (CHOOSE p \in JsonTable : p[1] = lexemes)[2]]
    ELSE [ok |-> FALSE, value |-> NoValue]

----------------------------------------------------------------------------
(* get_working_model *)

\* model names a listing may hold
\* models/gemini-1.5-flash-latest
NameFlash15Latest ==
    <<"m","o","d","e","l","s","/","g","e","m","i","n","i","-","1",".","5",
      "-","f","l","a","s","h","-","l","a","t","e","s","t">>

\* models/gemini-2.0-flash
NameFlash20 ==
    <<"m","o","d","e","l","s","/","g","e","m","i","n","i","-","2",".","0",
      "-","f","l","a","s","h">>

\* models/Gemini-Flash
NameFlashUpper ==
    <<"m","o","d","e","l","s","/","G","e","m","i","n","i","-","F","l","a",
      "s","h">>

\* models/gemini-pro
NameGeminiPro ==
    <<"m","o","d","e","l","s","/","g","e","m","i","n","i","-","p","r","o">>

\* models/Gemini-Pro
NameGeminiProUpper ==
    <<"m","o","d","e","l","s","/","G","e","m","i","n","i","-","P","r","o">>

\* models/gemini-2.5-pro
Name25Pro ==
    <<"m","o","d","e","l","s","/","g","e","m","i","n","i","-","2",".","5",
      "-","p","r","o">>

\* models/gemini-2.5-pro-flash
Name25ProFlash ==
    <<"m","o","d","e","l","s","/","g","e","m","i","n","i","-","2",".","5",
      "-","p","r","o","-","f","l","a","s","h">>

\* models/embedding-001
NameEmbedding ==
    <<"m","o","d","e","l","s","/","e","m","b","e","d","d","i","n","g","-",
      "0","0","1">>

\* the hardcoded fallback identifier  models/gemini-1.5-flash
FallbackModel ==
    <<"m","o","d","e","l","s","/","g","e","m","i","n","i","-","1",".","5",
      "-","f","l","a","s","h">>

MarkerFlash == <<"f","l","a","s","h">>
Marker15 == <<"1",".","5">>
MarkerGeminiPro == <<"g","e","m","i","n","i","-","p","r","o">>
Marker25Pro == <<"2",".","5","-","p","r","o">>

Model(name, methods) == [name |-> name, supported_generation_methods |-> methods]

\* the descriptors a listing is drawn from
ModelPool ==
    {Model(n, {"generateContent"}) :
        n \in {NameFlash15Latest, NameFlash20, NameFlashUpper, NameGeminiPro,
               NameGeminiProUpper, Name25Pro, Name25ProFlash, NameEmbedding}}
    \cup {Model(NameFlash15Latest, {"embedContent"})}

Catalogs == SeqsUpTo(ModelPool, MaxCatalog)

\* the loop over genai.list_models(): the names that support generateContent
RECURSIVE AvailableModels(_)
AvailableModels(cat) ==
    IF cat = <<>> THEN <<>>
    ELSE (IF "generateContent" \in Head(cat).supported_generation_methods
          THEN <<Head(cat).name>> ELSE <<>>)
         \o AvailableModels(Tail(cat))

\* a mutant of IsFlash: the name is not lowered
IsFlashCaseSensitive(m) == Contains(m, MarkerFlash)

IsFlash(m) == LET lowered == Lower(m) IN Contains(lowered, MarkerFlash)
IsFlash15(m) == IsFlash(m) /\ Contains(m, Marker15)
IsGeminiPro(m) == Contains(m, MarkerGeminiPro)
IsNotExpensive(m) == ~Contains(m, Marker25Pro)

\* for m in available_models: if <tier>: return m
RECURSIVE FirstWhere(_, _)
FirstWhere(names, tier) ==
    IF names = <<>> THEN <<>>
    ELSE IF \/ tier = 1 /\ IsFlash15(Head(names))
            \/ tier = 2 /\ IsFlash(Head(names))
            \/ tier = 3 /\ IsGeminiPro(Head(names))
            \/ tier = 4 /\ IsNotExpensive(Head(names))
         THEN <<Head(names)>>
         ELSE FirstWhere(Tail(names), tier)

\* the four loops and the default at the end of the try block
SelectFrom(names) ==
    LET flash15 == FirstWhere(names, 1)
        flash == FirstWhere(names, 2)
        pro == FirstWhere(names, 3)
        any == FirstWhere(names, 4)
    IN  IF flash15 # <<>> THEN flash15[1]
        ELSE IF flash # <<>> THEN flash[1]
        ELSE IF pro # <<>> THEN pro[1]
        ELSE IF any # <<>> THEN any[1]
        ELSE FallbackModel

\* what a call leaves: the value returned, the exception that escaped it
\* ("none" when it returned) and what it wrote to the sidebar
Returned(v, out) == [ret |-> v, raised |-> "none", sidebar |-> out]
Raised(e) == [ret |-> <<>>, raised |-> e, sidebar |-> <<>>]

ListError == "ListModelsError"

\* a mutant of ListingFailed: the exception is let through
ListingFailedReraise(e) == Raised(e)

\* except Exception as e: st.sidebar.error(...); return the fallback
ListingFailed(e) ==
    Returned(FallbackModel, <<[text |-> "Could not list models", detail |-> e]>>)

\* fail = 0: the listing yields every entry of cat; fail = k > 0: it raises
\* when asked for its k-th entry (k = Len(cat) + 1: after the last one)
get_working_model(cat, fail) ==
    IF fail = 0
    THEN Returned(SelectFrom(AvailableModels(cat)), <<>>)
    ELSE ListingFailed(ListError)

----------------------------------------------------------------------------
(* get_ai_response *)

UnknownModel == <<"u", "n", "k", "n", "o", "w", "n">>

Message(text, model, detail) == [text |-> text, model |-> model, detail |-> detail]

ErrorWithModel(model, e) == Message("Error with model", model, e)
RetryTip ==
    Message("Tip: If you see a '429' error, just wait 30 seconds and try again.",
            <<>>, "none")

RateLimitError == "ResourceExhausted429"
ProviderErrors == {"ConnectionError", "Unauthenticated401", RateLimitError}

None == [none |-> TRUE, value |-> NoValue]
Some(v) == [none |-> FALSE, value |-> v]

\* what a call of get_ai_response leaves
Outcome(ret, raised, model, errs, side, called) ==
    [ret |-> ret, raised |-> raised, model_name |-> model, errors |-> errs,
     sidebar |-> side, calls |-> called]

\* a mutant of Failed: the tip is shown for a 429 only
FailedTipOn429(model, e, side, called) ==
    Outcome(None, "none", model,
            <<ErrorWithModel(model, e)>>
            \o (IF e = RateLimitError THEN <<RetryTip>> ELSE <<>>),
            side, called)

\* a mutant of Failed: the exception is reported and raised again
FailedReraise(model, e, side, called) ==
    Outcome(None, e, model, <<ErrorWithModel(model, e), RetryTip>>, side, called)

\* except Exception as e: two st.error calls, return None
Failed(model, e, side, called) ==
    Outcome(None, "none", model, <<ErrorWithModel(model, e), RetryTip>>,
            side, called)

\* the provider during one call: what genai.configure, the listing and
\* generate_content do ("none": no exception), and response.text
Env(conf, cat, fail, gen, text) ==
    [configure |-> conf, catalog |-> cat, fail |-> fail, generate |-> gen,
     text |-> text]

\* clean_text = clean_json_string(response.text); return json.loads(clean_text)
Decode(model, text, side, called) ==
    LET decoded == json_loads(clean_json_string(text)) IN
    IF decoded.ok
    THEN Outcome(Some(decoded.value), "none", model, <<>>, side, called)
    ELSE Failed(model, "JSONDecodeError", side, called)

\* the try block from the selection of the model on
Generate(env, sel) ==
    IF sel.raised # "none"
    THEN Failed(UnknownModel, sel.raised, sel.sidebar, <<"configure", "list_models">>)
    ELSE IF env.generate # "none"
    THEN Failed(sel.ret, env.generate, sel.sidebar,
                <<"configure", "list_models", "generate_content">>)
    ELSE Decode(sel.ret, env.text, sel.sidebar,
                <<"configure", "list_models", "generate_content">>)

get_ai_response(text, key, env) ==
    IF env.configure # "none"
    THEN Failed(UnknownModel, env.configure, <<>>, <<"configure">>)
    ELSE Generate(env, get_working_model(env.catalog, env.fail))

----------------------------------------------------------------------------
(* the button handler *)

\* bool(data) in  if data:
Truthy(d) ==
    /\ ~d.none
    /\ CASE d.value.type = "dict" -> d.value.keys # {}
         [] d.value.type = "list" -> d.value.n > 0
         [] OTHER -> d.value.n # 0

Drawn(widgets, e) == [rendered |-> widgets, escaped |-> e]

\* the body of  if data:  up to the first exception
Render(v) ==
    IF v.type # "dict" THEN Drawn(<<"Emotional Radar">>, "TypeError")
    ELSE IF "emotions" \notin v.keys THEN Drawn(<<"Emotional Radar">>, "KeyError")
    ELSE IF "one_line_takeaway" \notin v.keys
    THEN Drawn(<<"Emotional Radar", "chart">>, "KeyError")
    ELSE IF "perspectives" \notin v.keys
    THEN Drawn(<<"Emotional Radar", "chart", "takeaway", "Cognitive Reframing">>,
               "KeyError")
    ELSE IF ~(PerspectiveKeys \subseteq v.pkeys)
    THEN Drawn(<<"Emotional Radar", "chart", "takeaway", "Cognitive Reframing">>,
               "KeyError")
    ELSE Drawn(<<"Emotional Radar", "chart", "takeaway", "Cognitive Reframing",
                 "cards">>, "none")

\* the provider situations a press of the button is tried in
PressCatalogs ==
    {<<>>,
     <<Model(NameFlash15Latest, {"generateContent"})>>,
     <<Model(Name25Pro, {"generateContent"})>>,
     <<Model(Name25Pro, {"generateContent"}),
       Model(NameFlash15Latest, {"generateContent"})>>,
     <<Model(NameGeminiPro, {"generateContent"})>>,
     <<Model(NameEmbedding, {"generateContent"})>>,
     <<Model(Name25ProFlash, {"generateContent"})>>}

Tags == {<<>>, <<"j", "s", "o", "n">>, <<"j", "s">>, <<"J", "S", "O", "N">>}

\* x between an opening fence with a language tag and a closing fence
Wrap(t, x) == Fence \o t \o <<NL>> \o x \o <<NL>> \o Fence

ResponseTexts ==
    {JsonText(v, ws) : v \in JsonValues, ws \in {<<>>, <<NL>>}}
    \cup {Wrap(t, JsonText(v, <<>>)) : v \in JsonValues, t \in Tags}
    \cup {<<>>, <<"x">>, <<"{">>}

\* every listing with a few answers, and every answer with one listing
PressEnvs ==
    {Env("none", cat, fail, "none", text) :
        cat \in PressCatalogs, fail \in {0, 1},
        text \in {JsonText(AnalysisResult, <<NL>>), <<"x">>}}
    \cup {Env("none", cat, fail, RateLimitError, <<>>) :
            cat \in PressCatalogs, fail \in {0, 1}}
    \cup {Env("none", <<Model(NameFlash20, {"generateContent"})>>, 0, gen, <<>>) :
            gen \in ProviderErrors}
    \cup {Env("none", <<Model(NameFlash20, {"generateContent"})>>, 0, "none", text) :
            text \in ResponseTexts}
    \cup {Env(conf, <<>>, 0, "none", <<>>) : conf \in ProviderErrors}

Secrets == {"absent", "", "secret"}
Texts == {"", "I'm stuck in my career"}

\* a mutant of MayAnalyze: the input text is not checked
MayAnalyzeKeyOnly(key, text) == key # ""

\* the else branch of the handler is taken
MayAnalyze(key, text) == key # "" /\ text # ""

\* the precondition warnings of the handler
Preconditions(key, text) ==
    IF key = "" THEN <<"Please enter your Gemini API Key.">>
    ELSE IF text = "" THEN <<"Please enter some text.">>
    ELSE <<>>

\* data = get_ai_response(...); if data: ...
RenderData(r) ==
    IF r.raised # "none" THEN Drawn(<<>>, r.raised)
    ELSE IF Truthy(r.ret) THEN Render(r.ret.value)
    ELSE Drawn(<<>>, "none")

----------------------------------------------------------------------------
(* The main screen *)

NoSelection == Returned(<<>>, <<>>)
NoEnv == Env("none", <<>>, 0, "none", <<>>)
NoDecode == [ok |-> FALSE, value |-> NoValue]

CleanIdle ==
    /\ json_str = <<>> /\ tag = <<>> /\ once = <<>> /\ twice = <<>>
    /\ fenced = <<>> /\ decPlain = NoDecode /\ decFenced = NoDecode
    /\ cpc = "off"

SelIdle ==
    /\ catalog = <<>> /\ failAt = 0 /\ selected = NoSelection /\ spc = "off"

UIIdle ==
    /\ pc = "off" /\ api_key = "" /\ user_input = "" /\ data = None
    /\ button = FALSE /\ provider = NoEnv
    /\ model_name = UnknownModel /\ errors = <<>> /\ warnings = <<>>
    /\ sidebar = <<>> /\ rendered = <<>> /\ escaped = "none" /\ calls = <<>>

Init ==
    /\ CleanIdle /\ SelIdle
    /\ pc = "start" /\ api_key = "" /\ user_input = "" /\ data = None
    /\ button = FALSE /\ provider = NoEnv
    /\ model_name = UnknownModel /\ errors = <<>> /\ warnings = <<>>
    /\ sidebar = <<>> /\ rendered = <<>> /\ escaped = "none" /\ calls = <<>>

\* the script runs for the first time: api_key = st.secrets[...]
Startup ==
    /\ pc = "start"
    /\ \E secret \in Secrets :
         IF secret = "absent"
         THEN /\ pc' = "crashed"
              /\ escaped' = "KeyError"
              /\ api_key' = api_key
         ELSE /\ pc' = "idle"
              /\ escaped' = escaped
              /\ api_key' = secret
    /\ UNCHANGED <<user_input, button, provider, data, model_name, errors,
                   warnings, sidebar, rendered, calls>>
    /\ UNCHANGED <<cleanVars, selVars>>

\* the user changes the text area: the script runs again, the button is not
\* pressed
EditText ==
    /\ pc = "idle"
    /\ \E t \in Texts : t # user_input /\ user_input' = t
    /\ button' = FALSE /\ provider' = NoEnv
    /\ data' = None /\ model_name' = UnknownModel
    /\ errors' = <<>> /\ warnings' = <<>> /\ sidebar' = <<>>
    /\ rendered' = <<>> /\ escaped' = "none" /\ calls' = <<>>
    /\ UNCHANGED <<pc, api_key>>
    /\ UNCHANGED <<cleanVars, selVars>>

\* the user presses the button: the script runs again with the button set
Press ==
    /\ pc = "idle"
    /\ IF MayAnalyze(api_key, user_input)
       THEN \E env \in PressEnvs :
              \E r \in {get_ai_response(user_input, api_key, env)} :
              \E drawn \in {RenderData(r)} :
              /\ provider' = env
              /\ data' = r.ret
              /\ model_name' = r.model_name
              /\ errors' = r.errors
              /\ sidebar' = r.sidebar
              /\ calls' = r.calls
              /\ warnings' = <<>>
              /\ rendered' = drawn.rendered
              /\ escaped' = drawn.escaped
       ELSE /\ warnings' = Preconditions(api_key, user_input)
            /\ provider' = NoEnv
            /\ data' = None /\ model_name' = UnknownModel
            /\ errors' = <<>> /\ sidebar' = <<>> /\ calls' = <<>>
            /\ rendered' = <<>> /\ escaped' = "none"
    /\ button' = TRUE
    /\ UNCHANGED <<pc, api_key, user_input>>
    /\ UNCHANGED <<cleanVars, selVars>>

Next == Startup \/ EditText \/ Press

Spec == Init /\ [][Next]_vars

----------------------------------------------------------------------------
(* The selector on enumerated catalogs *)

InitSelector ==
    /\ CleanIdle /\ UIIdle
    /\ catalog \in Catalogs
    /\ failAt \in 0..(Len(catalog) + 1)
    /\ selected = NoSelection
    /\ spc = "ready"

SelectModel ==
    /\ spc = "ready"
    /\ selected' = get_working_model(catalog, failAt)
    /\ spc' = "done"
    /\ UNCHANGED <<catalog, failAt>>
    /\ UNCHANGED <<cleanVars, uiVars>>

NextSelector == SelectModel

SpecSelector == InitSelector /\ [][NextSelector]_vars

----------------------------------------------------------------------------
(* The sanitizer on enumerated strings *)

Fragments ==
    {<<BT>>, <<BT, BT>>, Fence, <<"j", "s", "o", "n">>, <<NL>>, <<CR>>, <<SP>>,
     <<"x">>}

SanitizerInputs ==
    {Flatten(f) : f \in SeqsUpTo(Fragments, MaxFragments)}
    \cup {JsonText(v, ws) : v \in JsonValues, ws \in {<<>>, <<NL>>, <<CR, NL>>, <<SP>>}}

InitSanitizer ==
    /\ SelIdle /\ UIIdle
    /\ json_str \in SanitizerInputs
    /\ tag \in Tags
    /\ once = <<>> /\ twice = <<>> /\ fenced = <<>>
    /\ decPlain = NoDecode /\ decFenced = NoDecode
    /\ cpc = "raw"

CleanOnce ==
    /\ cpc = "raw"
    /\ once' = clean_json_string(json_str)
    /\ cpc' = "once"
    /\ UNCHANGED <<json_str, tag, twice, fenced, decPlain, decFenced>>
    /\ UNCHANGED <<selVars, uiVars>>

CleanTwice ==
    /\ cpc = "once"
    /\ twice' = clean_json_string(once)
    /\ cpc' = "twice"
    /\ UNCHANGED <<json_str, tag, once, fenced, decPlain, decFenced>>
    /\ UNCHANGED <<selVars, uiVars>>

\* the response arrives inside a fence: sanitize and decode it, and decode
\* the sanitized bare text
DecodeFenced ==
    /\ cpc = "twice"
    /\ fenced' = clean_json_string(Wrap(tag, json_str))
    /\ decFenced' = json_loads(clean_json_string(Wrap(tag, json_str)))
    /\ decPlain' = json_loads(once)
    /\ cpc' = "decoded"
    /\ UNCHANGED <<json_str, tag, once, twice>>
    /\ UNCHANGED <<selVars, uiVars>>

NextSanitizer == CleanOnce \/ CleanTwice \/ DecodeFenced

SpecSanitizer == InitSanitizer /\ [][NextSanitizer]_vars

----------------------------------------------------------------------------
(* Properties of the selector (SpecSelector) *)

\* the tiers as the specification lists them
HasFlash(m) ==
    LET lowered == Lower(m) IN
    \E i \in 1..Len(m) : StartsAt(lowered, i, MarkerFlash)

TierOf(m) ==
    IF HasFlash(m) /\ Contains(m, Marker15) THEN 1
    ELSE IF HasFlash(m) THEN 2
    ELSE IF Contains(m, MarkerGeminiPro) THEN 3
    ELSE IF ~Contains(m, Marker25Pro) THEN 4
    ELSE 5

\* the tier of each name a listing may hold
TierTable == [e \in ModelPool |-> TierOf(e.name)]

Capable(cat) ==
    {i \in 1..Len(cat) : "generateContent" \in cat[i].supported_generation_methods}

BestTier(cat) ==
    IF \E i \in Capable(cat) : TierTable[cat[i]] <= 4
    THEN CHOOSE t \in 1..4 :
           /\ \E i \in Capable(cat) : TierTable[cat[i]] = t
           /\ \A i \in Capable(cat) : TierTable[cat[i]] >= t
    ELSE 5

FirstOfTier(cat, t) ==
    CHOOSE i \in Capable(cat) :
        /\ TierTable[cat[i]] = t
        /\ \A j \in Capable(cat) : TierTable[cat[j]] = t => i <= j

Flash15AndExpensive ==
    {<<Model(NameFlash15Latest, {"generateContent"}),
       Model(Name25Pro, {"generateContent"})>>,
     <<Model(Name25Pro, {"generateContent"}),
       Model(NameFlash15Latest, {"generateContent"})>>}

\* C1: after a successful listing the selector returns the first entry, in
\* listing order, of the highest-priority non-empty tier among the entries
\* that support generateContent (flash and 1.5; flash; gemini-pro; not
\* 2.5-pro), the fixed fallback when no tier matches, and the flash-1.5 entry
\* for the catalog of gemini-1.5-flash-latest and gemini-2.5-pro in either
\* order.
C1_TierOrder ==
    (spc = "done" /\ failAt = 0) =>
        /\ selected.raised = "none"
        /\ IF BestTier(catalog) = 5
           THEN selected.ret = FallbackModel
           ELSE selected.ret = catalog[FirstOfTier(catalog, BestTier(catalog))].name
        /\ catalog \in Flash15AndExpensive => selected.ret = NameFlash15Latest

\* C1 witness: the expensive entry is listed first and the flash-1.5 entry
\* is returned.
C1_Witness ==
    /\ spc = "done" /\ failAt = 0
    /\ catalog = <<Model(Name25Pro, {"generateContent"}),
                   Model(NameFlash15Latest, {"generateContent"})>>
    /\ selected.ret = NameFlash15Latest

\* C2: when the listing fails, before the first entry or part-way, the
\* selector does not raise, writes a warning and returns the fixed fallback;
\* every call returns a non-empty identifier.
C2_ListingFailureFallsBack ==
    spc = "done" =>
        /\ selected.raised = "none"
        /\ selected.ret # <<>>
        /\ failAt > 0 =>
             /\ selected.ret = FallbackModel
             /\ Len(selected.sidebar) = 1
             /\ selected.sidebar[1].detail = ListError

\* C2 witness: the listing fails at its second entry.
C2_Witness ==
    /\ spc = "done" /\ failAt = 2 /\ Len(catalog) >= 2
    /\ selected.ret = FallbackModel
    /\ selected.sidebar # <<>>

\* C10: the selector never returns a catalog entry whose name contains
\* 2.5-pro, whatever tier the entry falls in.
C10_NeverExpensive ==
    spc = "done" =>
        ~(/\ Contains(selected.ret, Marker25Pro)
          /\ \E i \in 1..Len(catalog) : catalog[i].name = selected.ret)

----------------------------------------------------------------------------
(* Properties of the sanitizer (SpecSanitizer) *)

Has(s, c) == \E i \in 1..Len(s) : s[i] = c

\* C3 as stated: sanitizing twice gives what sanitizing once gives.
C3_Idempotent ==
    cpc \in {"twice", "decoded"} => twice = once

\* C3 amended: sanitizing twice gives what sanitizing once gives exactly when
\* the first result holds no run of three backticks, and that is so for
\* every input without a carriage return.
C3_IdempotentWithoutCR ==
    cpc \in {"twice", "decoded"} =>
        /\ (twice = once) <=> ~Contains(once, Fence)
        /\ ~Has(json_str, CR) => twice = once

\* C3 witness: an input with a fence and a newline that the sanitizer
\* changes, sanitized twice.
C3_Witness ==
    /\ cpc = "twice"
    /\ Contains(json_str, Fence) /\ Has(json_str, NL) /\ ~Has(json_str, CR)
    /\ once # json_str /\ once # <<>>
    /\ twice = once

\* C4: the output of the sanitizer holds no newline and no carriage return.
C4_NoLineBreaks ==
    /\ cpc # "raw" => ~Has(once, NL) /\ ~Has(once, CR)
    /\ cpc \in {"twice", "decoded"} => ~Has(twice, NL) /\ ~Has(twice, CR)
    /\ cpc = "decoded" => ~Has(fenced, NL) /\ ~Has(fenced, CR)

\* C4 witness: newlines and carriage returns between other characters.
C4_Witness ==
    /\ cpc = "once"
    /\ Has(json_str, NL) /\ Has(json_str, CR)
    /\ ~IsSpace(json_str[1]) /\ ~IsSpace(json_str[Len(json_str)])
    /\ Has(once, SP)

----------------------------------------------------------------------------
(* Properties of the main screen (Spec) *)

\* the exception the provider or the decoding raises inside get_ai_response
Cause(env) ==
    IF env.configure # "none" THEN env.configure
    ELSE IF env.generate # "none" THEN env.generate
    ELSE IF ~json_loads(clean_json_string(env.text)).ok THEN "JSONDecodeError"
    ELSE "none"

Analysed == button /\ api_key # "" /\ user_input # ""

InErrors(m) == \E i \in 1..Len(errors) : errors[i] = m

\* C6: every failure inside get_ai_response (configuration or generation
\* raising, a 429, text that does not decode) ends the same way: nothing
\* escapes, the result is None, an error carrying the exception is shown,
\* nothing is rendered and the screen waits for the next press.
C6_FailuresCollapse ==
    (Analysed /\ Cause(provider) # "none") =>
        /\ escaped = "none"
        /\ data = None
        /\ \E i \in 1..Len(errors) :
             /\ errors[i].text = "Error with model"
             /\ errors[i].detail = Cause(provider)
        /\ rendered = <<>>
        /\ pc = "idle"

\* C6 witness: the backend answers with text that is not JSON.
C6_Witness ==
    /\ Analysed
    /\ provider.generate = "none" /\ provider.text = <<"x">>
    /\ Cause(provider) = "JSONDecodeError"
    /\ data = None /\ errors # <<>>

\* the decoded value is what the screen renders
MatchesSchema(v) ==
    v.type = "dict" /\ v.keys = TopKeys /\ v.pkeys = PerspectiveKeys

\* C7: a response that decodes but does not match the AnalysisResult schema
\* is reported as a failure by get_ai_response, which returns None; no
\* exception reaches the rendering code.
C7_SchemaMismatchCaught ==
    (/\ Analysed
     /\ Cause(provider) = "none"
     /\ ~MatchesSchema(json_loads(clean_json_string(provider.text)).value)) =>
        /\ data = None
        /\ errors # <<>>
        /\ escaped = "none"

\* C8 as stated: the retry tip is shown if and only if the failure is a
\* rate-limit one.
C8_TipOnlyOnRateLimit ==
    Analysed => (InErrors(RetryTip) <=> Cause(provider) = RateLimitError)

\* C8 amended: a rate-limit failure returns None and shows the retry tip,
\* and the tip is shown on every failure of get_ai_response, of whatever
\* class, and on no success.
C8_TipOnEveryFailure ==
    Analysed =>
        /\ Cause(provider) = RateLimitError => data = None /\ InErrors(RetryTip)
        /\ InErrors(RetryTip) <=> Cause(provider) # "none"

\* C8 witness: generate_content raises the 429.
C8_Witness ==
    /\ Analysed
    /\ provider.generate = RateLimitError
    /\ data = None /\ InErrors(RetryTip)

\* C9: a press without the credential or without text shows a warning and
\* does nothing else: no provider call, nothing rendered; the provider is
\* called only when both are there.
C9_PreconditionsGuard ==
    /\ (button /\ (api_key = "" \/ user_input = "")) =>
          /\ Len(warnings) = 1
          /\ calls = <<>>
          /\ rendered = <<>>
          /\ errors = <<>>
          /\ data = None
    /\ calls # <<>> => api_key # "" /\ user_input # ""

\* C9 witness: the button is pressed with the credential and no text.
C9_Witness ==
    /\ button /\ api_key # "" /\ user_input = ""
    /\ warnings = <<"Please enter some text.">>
    /\ calls = <<>>

====
